---- MODULE Spec2Model ----
(***************************************************************************)
(* Model of impeller's GaussianBlurFilterContents                          *)
(* (impeller/entity/contents/filters/gaussian_blur_filter_contents.cc).    *)
(*                                                                         *)
(* Numbers.  A Scalar (float) that the code only adds, compares, rounds or *)
(* scales by an integer is held in fixed point, Unit steps per 1.0.  A     *)
(* Scalar that is a quotient (a downsample scale, an effective scalar, a   *)
(* matrix entry of the output transform) is held as an exact fraction      *)
(* <<n, d>>; d = 0 stands for a non-finite float (inf or NaN), which is    *)
(* what a float division by zero produces.                                 *)
(* The constructor's sigmas are whole numbers.                             *)
(***************************************************************************)
EXTENDS Integers, Sequences, FiniteSets, TLC

VARIABLES
    sigma_x_, sigma_y_, tile_mode_,   \* the filter's members (l.208-212)
    pc,                  \* position of the RenderFilter invocation
    args,                \* arguments of the running RenderFilter call
    input_snapshot,      \* RenderFilter's local, l.285
    pass1_out_texture,   \* l.315
    pass2_out_texture,   \* l.321
    pass3_out_texture,   \* l.332
    locals,              \* RenderFilter's other locals, l.269-310
    subpasses,           \* renderer.MakeSubpass requests, in order
    snapshot_requests,   \* inputs[0]->GetSnapshot requests, in order
    result,              \* what RenderFilter returned
    query                \* the last call of a pure entry point and its result

vars == <<sigma_x_, sigma_y_, tile_mode_, pc, args, input_snapshot, locals,
          pass1_out_texture, pass2_out_texture, pass3_out_texture,
          subpasses, snapshot_requests, result, query>>

----------------------------------------------------------------------------
(* Bounds *)

MaxTextureSize == 2
MaxSmallSigmaArg == 8
MaxNegSigmaArg == 3
ClampMargin == 3

----------------------------------------------------------------------------
(* Scalars *)

Unit == 1000

NoValue == [has_value |-> FALSE]
Some(v) == [has_value |-> TRUE, value |-> v]

AbsInt(n) == IF n < 0 THEN -n ELSE n

RECURSIVE GCD(_, _)
GCD(a, b) == IF b = 0 THEN a ELSE GCD(b, a % b)

NonFinite == <<1, 0>>

IsFinite(x) == x[2] # 0

\* the fraction n/d in lowest terms with a positive denominator
Rat(n, d) ==
    IF d = 0 THEN NonFinite
    ELSE LET g == GCD(AbsInt(n), AbsInt(d))
             s == IF d < 0 THEN -1 ELSE 1
         IN  <<(s * n) \div g, (s * d) \div g>>

FromInt(n) == <<n, 1>>

RMul(x, y) ==
    IF IsFinite(x) /\ IsFinite(y) THEN Rat(x[1] * y[1], x[2] * y[2])
    ELSE NonFinite

RAdd(x, y) ==
    IF IsFinite(x) /\ IsFinite(y)
    THEN Rat(x[1] * y[2] + y[1] * x[2], x[2] * y[2])
    ELSE NonFinite

\* float division: a zero divisor gives inf or NaN
RDiv(x, y) ==
    IF IsFinite(x) /\ IsFinite(y) /\ y[1] # 0
    THEN Rat(x[1] * y[2], x[2] * y[1])
    ELSE NonFinite

\* float comparison: false when either side is NaN
RLess(x, y) == IsFinite(x) /\ IsFinite(y) /\ x[1] * y[2] < y[1] * x[2]

RMin(x, y) == IF RLess(y, x) THEN y ELSE x

\* ceil() of a fixed-point scalar, as a whole number
Ceil(v) == -((-v) \div Unit)

\* round() of a non-negative fraction, halves away from zero
Round(x) == (2 * x[1] + x[2]) \div (2 * x[2])

kEhCloseEnough == <<1, 1000>>

----------------------------------------------------------------------------
(* SigmaMath *)

\* variant: the clamp at 500 is missing
ScaleSigma_NoClamp(sigma) ==
    LET scalar == 10000000 - 34000 * sigma + 34 * sigma * sigma
    IN  (sigma * scalar) \div (10000000 \div Unit)

ScaleSigma(sigma) ==
    LET clamped == IF sigma < 500 THEN sigma ELSE 500
        \* a, b, c in steps of 10^-7
        a == 34
        b == -34000
        c == 10000000
        scalar == c + b * clamped + a * clamped * clamped
    IN  (clamped * scalar) \div (10000000 \div Unit)

CalculateBlurRadius(sigma) ==
    IF 2 * sigma > Unit THEN ((2 * sigma - Unit) * 866) \div 1000 ELSE 0

CalculateScale(sigma) ==
    IF sigma <= 4 * Unit THEN FromInt(1) ELSE Rat(4 * Unit, sigma)

----------------------------------------------------------------------------
(* Geometry: Matrix (2-D affine part), Vector2, Rect *)

\* x' = a*x + b*y + tx,  y' = c*x + d*y + ty
Identity == [a |-> 1, b |-> 0, c |-> 0, d |-> 1, tx |-> 0, ty |-> 0]

MakeTranslation(x, y) == [a |-> 1, b |-> 0, c |-> 0, d |-> 1, tx |-> x, ty |-> y]

MakeScale(x, y) == [a |-> x, b |-> 0, c |-> 0, d |-> y, tx |-> 0, ty |-> 0]

\* Matrix * Matrix: (m * n) applies n first
MatMul(m, n) ==
    [a  |-> m.a * n.a + m.b * n.c,
     b  |-> m.a * n.b + m.b * n.d,
     c  |-> m.c * n.a + m.d * n.c,
     d  |-> m.c * n.b + m.d * n.d,
     tx |-> m.a * n.tx + m.b * n.ty + m.tx,
     ty |-> m.c * n.tx + m.d * n.ty + m.ty]

\* Matrix::Basis: the matrix without its translation
Basis(m) == [m EXCEPT !.tx = 0, !.ty = 0]

\* Matrix * Vector: the vector is transformed as a point, translation included
MatVec(m, v) ==
    [x |-> m.a * v.x + m.b * v.y + m.tx, y |-> m.c * v.x + m.d * v.y + m.ty]

VecAbs(v) == [x |-> AbsInt(v.x), y |-> AbsInt(v.y)]

\* Rect::Expand: each edge moves outward by the amount of its axis
Expand(rect, amount) ==
    [l |-> rect.l - amount.x, t |-> rect.t - amount.y,
     r |-> rect.r + amount.x, b |-> rect.b + amount.y]

\* the same matrix with fraction entries
ToRatMatrix(m) ==
    [a |-> FromInt(m.a), b |-> FromInt(m.b), c |-> FromInt(m.c),
     d |-> FromInt(m.d), tx |-> FromInt(m.tx), ty |-> FromInt(m.ty)]

RatMakeScale(x, y) ==
    [a |-> x, b |-> FromInt(0), c |-> FromInt(0), d |-> y,
     tx |-> FromInt(0), ty |-> FromInt(0)]

RatMatMul(m, n) ==
    [a  |-> RAdd(RMul(m.a, n.a), RMul(m.b, n.c)),
     b  |-> RAdd(RMul(m.a, n.b), RMul(m.b, n.d)),
     c  |-> RAdd(RMul(m.c, n.a), RMul(m.d, n.c)),
     d  |-> RAdd(RMul(m.c, n.b), RMul(m.d, n.d)),
     tx |-> RAdd(RAdd(RMul(m.a, n.tx), RMul(m.b, n.ty)), m.tx),
     ty |-> RAdd(RAdd(RMul(m.c, n.tx), RMul(m.d, n.ty)), m.ty)]

RatMatVec(m, v) ==
    [x |-> RAdd(RAdd(RMul(m.a, v.x), RMul(m.b, v.y)), m.tx),
     y |-> RAdd(RAdd(RMul(m.c, v.x), RMul(m.d, v.y)), m.ty)]

----------------------------------------------------------------------------
(* Helpers of the anonymous namespace *)

ExpandCoverageHint(coverage_hint, source_to_local_transform, padding) ==
    IF ~coverage_hint.has_value THEN NoValue
    ELSE LET transformed_padding ==
                 VecAbs(MatVec(source_to_local_transform, padding))
         IN  Some(Expand(coverage_hint.value,
                         [x |-> transformed_padding.x * Unit,
                          y |-> transformed_padding.y * Unit]))

MakeSamplerDescriptor(filter, address_mode) ==
    [min_filter |-> filter, mag_filter |-> filter,
     width_address_mode |-> address_mode, height_address_mode |-> address_mode]

SetTileMode(descriptor, supports_decal, tile_mode) ==
    CASE tile_mode = "kDecal" ->
           IF supports_decal
           THEN [descriptor EXCEPT !.width_address_mode = "kDecal",
                                   !.height_address_mode = "kDecal"]
           ELSE descriptor
      [] tile_mode = "kClamp" ->
           [descriptor EXCEPT !.width_address_mode = "kClampToEdge",
                              !.height_address_mode = "kClampToEdge"]
      [] tile_mode = "kMirror" ->
           [descriptor EXCEPT !.width_address_mode = "kMirror",
                              !.height_address_mode = "kMirror"]
      [] tile_mode = "kRepeat" ->
           [descriptor EXCEPT !.width_address_mode = "kRepeat",
                              !.height_address_mode = "kRepeat"]

\* renderer.MakeSubpass: a new texture of the requested size; the request is
\* appended to the renderer's list.  Texture 0 is the input snapshot's.
MakeSubpass(requests, subpass_size, command) ==
    LET out_texture == [id |-> Len(requests) + 1, size |-> subpass_size]
    IN  [texture  |-> out_texture,
         requests |-> Append(requests,
                             [size |-> subpass_size, out |-> out_texture.id,
                              command |-> command])]

MakeDownsampleSubpass(requests, supports_decal, input_texture, sampler_descriptor, subpass_size, padding, tile_mode) ==
    LET texture_size == input_texture.size
        \* MakeAnchorScale's scale, (texture_size + padding * 2) / texture_size
        uv_scale ==
            [x |-> Rat(texture_size.width + padding.x * 2, texture_size.width),
             y |-> Rat(texture_size.height + padding.y * 2, texture_size.height)]
        linear_sampler_descriptor ==
            [SetTileMode(sampler_descriptor, supports_decal, tile_mode)
                EXCEPT !.mag_filter = "kLinear", !.min_filter = "kLinear"]
    IN  MakeSubpass(requests, subpass_size,
                    [label    |-> "Gaussian blur downsample",
                     pipeline |-> "TexturePipeline",
                     texture  |-> input_texture.id,
                     sampler  |-> linear_sampler_descriptor,
                     uv_scale |-> uv_scale])

BlurPipeline(supports_decal, tile_mode) ==
    IF tile_mode = "kDecal" /\ ~supports_decal
    THEN "GaussianBlurDecalPipeline"
    ELSE "GaussianBlurPipeline"

BlurSampler(sampler_descriptor) ==
    [sampler_descriptor EXCEPT !.mag_filter = "kLinear", !.min_filter = "kLinear"]

\* variant: the blur pass has no early return
BlurPassSkipped_Never(blur_info) == FALSE

BlurPassSkipped(blur_info) == RLess(blur_info.blur_sigma, kEhCloseEnough)

MakeBlurSubpass(requests, supports_decal, input_texture, sampler_descriptor, tile_mode, blur_info) ==
    IF BlurPassSkipped(blur_info)
    THEN [texture |-> input_texture, requests |-> requests]
    ELSE LET subpass_size == input_texture.size
         IN  MakeSubpass(requests, subpass_size,
                         [label     |-> "Gaussian blur",
                          pipeline  |-> BlurPipeline(supports_decal, tile_mode),
                          texture   |-> input_texture.id,
                          sampler   |-> BlurSampler(sampler_descriptor),
                          blur_info |-> blur_info])

\* Entity::FromSnapshot: an entity drawing the snapshot
FromSnapshot(snapshot, blend_mode, clip_depth) ==
    [texture |-> snapshot.texture, transform |-> snapshot.transform,
     sampler_descriptor |-> snapshot.sampler_descriptor,
     opacity |-> snapshot.opacity,
     blend_mode |-> blend_mode, clip_depth |-> clip_depth]

----------------------------------------------------------------------------
(* Values the callers pass *)

SigmaValues == {-1, 0, 1, 8, 600}

TileModes == {"kClamp", "kRepeat", "kMirror", "kDecal"}

TransformValues ==
    {Identity,
     [a |-> 2, b |-> -1, c |-> 1, d |-> 3, tx |-> 5, ty |-> -7],
     [a |-> -1, b |-> 0, c |-> 0, d |-> 1, tx |-> 4, ty |-> 0],
     [a |-> 0, b |-> -2, c |-> 2, d |-> 0, tx |-> 0, ty |-> 0]}

SnapshotTransforms ==
    {Identity, [a |-> 2, b |-> -1, c |-> 1, d |-> 3, tx |-> 5, ty |-> -7]}

\* entity.GetTransform() and effect_transform of a RenderFilter call
RenderTransforms ==
    {<<Identity, Identity>>,
     <<[a |-> -1, b |-> 0, c |-> 0, d |-> 1, tx |-> 4, ty |-> 0],
       [a |-> 0, b |-> -2, c |-> 2, d |-> 0, tx |-> 0, ty |-> 0]>>}

RectValues ==
    {[l |-> 10 * Unit, t |-> 20 * Unit, r |-> 110 * Unit, b |-> 70 * Unit]}

TextureSizes ==
    {[width |-> w, height |-> h] : w \in 1..MaxTextureSize, h \in 1..MaxTextureSize}

\* sampler descriptor and opacity of an upstream snapshot
SnapshotStyles ==
    {<<MakeSamplerDescriptor("kNearest", "kClampToEdge"), Unit>>,
     <<MakeSamplerDescriptor("kLinear", "kRepeat"), Unit \div 2>>}

Snapshots ==
    {[texture |-> [id |-> 0, size |-> sz],
      transform |-> ToRatMatrix(m),
      sampler_descriptor |-> st[1],
      opacity |-> st[2]] :
        sz \in TextureSizes, m \in SnapshotTransforms, st \in SnapshotStyles}

\* arguments of the ScaleSigma calls: around zero and around the clamp
SigmaArgs ==
    ((-MaxNegSigmaArg)..MaxSmallSigmaArg)
        \cup ((500 - ClampMargin)..(500 + ClampMargin))

\* a FilterInput, by what its GetSnapshot, GetCoverage and GetTransform return
RenderInputs ==
    {[snapshot |-> sn, coverage |-> NoValue, transform |-> Identity] :
        sn \in {NoValue} \cup {Some(x) : x \in Snapshots}}

CoverageInputs ==
    {[snapshot |-> NoValue, coverage |-> cv, transform |-> m] :
        cv \in {NoValue} \cup {Some(x) : x \in RectValues}, m \in TransformValues}

----------------------------------------------------------------------------
(* l.227-229, 248-250, 269-272: the head shared by RenderFilter and the    *)
(* coverage queries                                                        *)

ScaledSigma(sigma_x, sigma_y) ==
    [x |-> ScaleSigma(sigma_x), y |-> ScaleSigma(sigma_y)]

BlurRadius(scaled_sigma) ==
    [x |-> CalculateBlurRadius(scaled_sigma.x),
     y |-> CalculateBlurRadius(scaled_sigma.y)]

Padding(blur_radius) == [x |-> Ceil(blur_radius.x), y |-> Ceil(blur_radius.y)]

----------------------------------------------------------------------------
(* Coverage queries *)

\* l.227-229, l.248-250
QueryLocals ==
    LET scaled_sigma == ScaledSigma(sigma_x_, sigma_y_)
    IN  [scaled_sigma |-> scaled_sigma, blur_radius |-> BlurRadius(scaled_sigma)]

GetFilterSourceCoverage(effect_transform, output_limit) ==
    LET blur_radius == QueryLocals.blur_radius
        blur_radii == MatVec(Basis(effect_transform), blur_radius)
    IN  Some(Expand(output_limit, blur_radii))

\* variant: no inputs gives an empty rectangle at the origin
GetFilterCoverage_GuessedRect(inputs, effect_transform) ==
    IF inputs = <<>> THEN Some([l |-> 0, t |-> 0, r |-> 0, b |-> 0])
    ELSE LET input_coverage == inputs[1].coverage
         IN  IF ~input_coverage.has_value THEN NoValue
             ELSE LET blur_radius == QueryLocals.blur_radius
                      blur_radii ==
                          VecAbs(MatVec(MatMul(Basis(inputs[1].transform),
                                               Basis(effect_transform)),
                                        blur_radius))
                  IN  Some(Expand(input_coverage.value, blur_radii))

GetFilterCoverage(inputs, effect_transform) ==
    IF inputs = <<>> THEN NoValue
    ELSE LET input_coverage == inputs[1].coverage
         IN  IF ~input_coverage.has_value THEN NoValue
             ELSE LET blur_radius == QueryLocals.blur_radius
                      blur_radii ==
                          VecAbs(MatVec(MatMul(Basis(inputs[1].transform),
                                               Basis(effect_transform)),
                                        blur_radius))
                  IN  Some(Expand(input_coverage.value, blur_radii))

----------------------------------------------------------------------------
(* RenderFilter *)

\* variant: the threshold is zero
FastPath_ZeroThreshold(scaled_sigma) ==
    scaled_sigma.x < 0 /\ scaled_sigma.y < 0

\* l.292
FastPath(scaled_sigma) ==
    /\ RLess(Rat(scaled_sigma.x, Unit), kEhCloseEnough)
    /\ RLess(Rat(scaled_sigma.y, Unit), kEhCloseEnough)

\* variant: nothing to blur gives no result
FastPathResult_Nullopt(snapshot, entity) == NoValue

\* l.293-294
FastPathResult(snapshot, entity) ==
    Some(FromSnapshot(snapshot, entity.blend_mode, entity.clip_depth))

\* l.297-298
DesiredScalar(scaled_sigma) ==
    RMin(CalculateScale(scaled_sigma.x), CalculateScale(scaled_sigma.y))

\* l.303-304
PaddedSize(texture_size, padding) ==
    [x |-> texture_size.width + 2 * padding.x,
     y |-> texture_size.height + 2 * padding.y]

\* l.305-309
SubpassSize(padded_size, downsample_scalar) ==
    LET downsampled_size ==
            [x |-> RMul(FromInt(padded_size.x), downsample_scalar.x),
             y |-> RMul(FromInt(padded_size.y), downsample_scalar.y)]
    IN  [width  |-> Round(downsampled_size.x),
         height |-> Round(downsampled_size.y)]

\* l.310
EffectiveScalar(subpass_size, padded_size) ==
    [x |-> Rat(subpass_size.width, padded_size.x),
     y |-> Rat(subpass_size.height, padded_size.y)]

\* l.269-272
HeadLocals ==
    LET scaled_sigma == ScaledSigma(sigma_x_, sigma_y_)
        blur_radius == BlurRadius(scaled_sigma)
    IN  [scaled_sigma |-> scaled_sigma, blur_radius |-> blur_radius,
         padding |-> Padding(blur_radius)]

\* l.297-310, added to the locals of l.269-272
GeneralLocals(head, snapshot) ==
    LET desired_scalar == DesiredScalar(head.scaled_sigma)
        downsample_scalar == [x |-> desired_scalar, y |-> desired_scalar]
        padded_size == PaddedSize(snapshot.texture.size, head.padding)
        subpass_size == SubpassSize(padded_size, downsample_scalar)
    IN  [scaled_sigma |-> head.scaled_sigma, blur_radius |-> head.blur_radius,
         padding |-> head.padding,
         downsample_scalar |-> downsample_scalar,
         padded_size |-> padded_size,
         subpass_size |-> subpass_size,
         effective_scalar |-> EffectiveScalar(subpass_size, padded_size)]

\* l.319
Pass1PixelSize(texture) ==
    [x |-> RDiv(FromInt(1), FromInt(texture.size.width)),
     y |-> RDiv(FromInt(1), FromInt(texture.size.height))]

\* variant: the first blur pass runs along x
BlurInfoY_Horizontal(l, pass1_pixel_size) ==
    [blur_uv_offset |-> [x |-> pass1_pixel_size.x, y |-> FromInt(0)],
     blur_sigma  |-> RMul(Rat(l.scaled_sigma.x, Unit), l.effective_scalar.x),
     blur_radius |-> RMul(Rat(l.blur_radius.x, Unit), l.effective_scalar.x),
     step_size   |-> FromInt(1)]

\* l.324-329
BlurInfoY(l, pass1_pixel_size) ==
    [blur_uv_offset |-> [x |-> FromInt(0), y |-> pass1_pixel_size.y],
     blur_sigma  |-> RMul(Rat(l.scaled_sigma.y, Unit), l.effective_scalar.y),
     blur_radius |-> RMul(Rat(l.blur_radius.y, Unit), l.effective_scalar.y),
     step_size   |-> FromInt(1)]

\* l.335-340
BlurInfoX(l, pass1_pixel_size) ==
    [blur_uv_offset |-> [x |-> pass1_pixel_size.x, y |-> FromInt(0)],
     blur_sigma  |-> RMul(Rat(l.scaled_sigma.x, Unit), l.effective_scalar.x),
     blur_radius |-> RMul(Rat(l.blur_radius.x, Unit), l.effective_scalar.x),
     step_size   |-> FromInt(1)]

\* l.348-350
OutputTransform(input_transform, padding, effective_scalar) ==
    RatMatMul(RatMatMul(input_transform,
                        ToRatMatrix(MakeTranslation(-padding.x, -padding.y))),
              RatMakeScale(RDiv(FromInt(1), effective_scalar.x),
                           RDiv(FromInt(1), effective_scalar.y)))

----------------------------------------------------------------------------
(* State machine *)

NoArgs == [inputs |-> <<>>]
NoQuery == [op |-> "none"]

Init ==
    /\ sigma_x_ \in SigmaValues
    /\ sigma_y_ \in SigmaValues
    /\ tile_mode_ \in TileModes
    /\ pc = "idle"
    /\ args = NoArgs
    /\ input_snapshot = NoValue
    /\ locals = NoValue
    /\ pass1_out_texture = NoValue
    /\ pass2_out_texture = NoValue
    /\ pass3_out_texture = NoValue
    /\ subpasses = <<>>
    /\ snapshot_requests = <<>>
    /\ result = NoValue
    /\ query = NoQuery

filter == <<sigma_x_, sigma_y_, tile_mode_>>

\* l.265-310: up to the fast path's return, or to the first subpass
RenderFilterEntry ==
    /\ pc = "idle"
    /\ \E inputs \in {<<>>} \cup {<<i>> : i \in RenderInputs},
          supports_decal \in BOOLEAN,
          tr \in RenderTransforms,
          coverage_hint \in {NoValue} \cup {Some(x) : x \in RectValues} :
        LET entity == [transform |-> tr[1], blend_mode |-> "kSourceOver",
                       clip_depth |-> 1]
            effect_transform == tr[2]
            head == HeadLocals
            expanded_coverage_hint ==
                ExpandCoverageHint(coverage_hint,
                                   MatMul(entity.transform, effect_transform),
                                   head.padding)
        IN  /\ args' = [inputs |-> inputs, supports_decal |-> supports_decal,
                        entity |-> entity, effect_transform |-> effect_transform,
                        coverage_hint |-> coverage_hint]
            /\ IF inputs = <<>>
               THEN /\ snapshot_requests' = <<>>
                    /\ input_snapshot' = NoValue
                    /\ locals' = NoValue
                    /\ result' = NoValue
                    /\ pc' = "done"
               ELSE /\ snapshot_requests' =
                           <<[label |-> "GaussianBlur",
                              coverage_limit |-> expanded_coverage_hint]>>
                    /\ input_snapshot' = inputs[1].snapshot
                    /\ IF ~inputs[1].snapshot.has_value
                       THEN /\ locals' = head
                            /\ result' = NoValue
                            /\ pc' = "done"
                       ELSE IF FastPath(head.scaled_sigma)
                            THEN /\ locals' = head
                                 /\ result' = FastPathResult(
                                        inputs[1].snapshot.value, entity)
                                 /\ pc' = "done"
                            ELSE /\ locals' = GeneralLocals(
                                        head, inputs[1].snapshot.value)
                                 /\ result' = NoValue
                                 /\ pc' = "downsample"
    /\ UNCHANGED <<filter, pass1_out_texture, pass2_out_texture,
                   pass3_out_texture, subpasses, query>>

\* l.315-317
RenderFilterDownsample ==
    /\ pc = "downsample"
    /\ LET r == MakeDownsampleSubpass(subpasses, args.supports_decal,
                    input_snapshot.value.texture,
                    input_snapshot.value.sampler_descriptor,
                    locals.subpass_size, locals.padding, tile_mode_)
       IN  pass1_out_texture' = r.texture /\ subpasses' = r.requests
    /\ pc' = "blurY"
    /\ UNCHANGED <<filter, args, input_snapshot, locals, pass2_out_texture,
                   pass3_out_texture, snapshot_requests, result, query>>

\* l.319-329
RenderFilterBlurY ==
    /\ pc = "blurY"
    /\ LET r == MakeBlurSubpass(subpasses, args.supports_decal,
                    pass1_out_texture,
                    input_snapshot.value.sampler_descriptor, tile_mode_,
                    BlurInfoY(locals, Pass1PixelSize(pass1_out_texture)))
       IN  pass2_out_texture' = r.texture /\ subpasses' = r.requests
    /\ pc' = "blurX"
    /\ UNCHANGED <<filter, args, input_snapshot, locals, pass1_out_texture,
                   pass3_out_texture, snapshot_requests, result, query>>

\* l.332-340
RenderFilterBlurX ==
    /\ pc = "blurX"
    /\ LET r == MakeBlurSubpass(subpasses, args.supports_decal,
                    pass2_out_texture,
                    input_snapshot.value.sampler_descriptor, tile_mode_,
                    BlurInfoX(locals, Pass1PixelSize(pass1_out_texture)))
       IN  pass3_out_texture' = r.texture /\ subpasses' = r.requests
    /\ pc' = "composite"
    /\ UNCHANGED <<filter, args, input_snapshot, locals, pass1_out_texture,
                   pass2_out_texture, snapshot_requests, result, query>>

\* l.342-353
RenderFilterComposite ==
    /\ pc = "composite"
    /\ LET sampler_desc == MakeSamplerDescriptor("kLinear", "kClampToEdge")
       IN  result' = Some(FromSnapshot(
                         [texture |-> pass3_out_texture,
                          transform |-> OutputTransform(
                                            input_snapshot.value.transform,
                                            locals.padding,
                                            locals.effective_scalar),
                          sampler_descriptor |-> sampler_desc,
                          opacity |-> input_snapshot.value.opacity],
                         args.entity.blend_mode, args.entity.clip_depth))
    /\ pc' = "done"
    /\ UNCHANGED <<filter, args, input_snapshot, locals, pass1_out_texture,
                   pass2_out_texture, pass3_out_texture, subpasses,
                   snapshot_requests, query>>

\* the call has returned; every local is gone and the filter keeps nothing
Return ==
    /\ pc \in {"done", "returned"}
    /\ pc' = "idle"
    /\ args' = NoArgs
    /\ input_snapshot' = NoValue
    /\ locals' = NoValue
    /\ pass1_out_texture' = NoValue
    /\ pass2_out_texture' = NoValue
    /\ pass3_out_texture' = NoValue
    /\ subpasses' = <<>>
    /\ snapshot_requests' = <<>>
    /\ result' = NoValue
    /\ query' = NoQuery
    /\ UNCHANGED filter

CallGetFilterSourceCoverage ==
    /\ pc = "idle"
    /\ \E effect_transform \in TransformValues, output_limit \in RectValues :
        query' = [op |-> "GetFilterSourceCoverage",
                  effect_transform |-> effect_transform,
                  output_limit |-> output_limit,
                  result |-> GetFilterSourceCoverage(effect_transform,
                                                     output_limit)]
    /\ locals' = QueryLocals
    /\ pc' = "returned"
    /\ UNCHANGED <<filter, args, input_snapshot, pass1_out_texture,
                   pass2_out_texture, pass3_out_texture, subpasses,
                   snapshot_requests, result>>

CallGetFilterCoverage ==
    /\ pc = "idle"
    /\ \E inputs \in {<<>>} \cup {<<i>> : i \in CoverageInputs},
          effect_transform \in TransformValues :
        /\ query' = [op |-> "GetFilterCoverage",
                     inputs |-> inputs,
                     effect_transform |-> effect_transform,
                     result |-> GetFilterCoverage(inputs, effect_transform)]
        /\ locals' = IF inputs = <<>> \/ ~inputs[1].coverage.has_value
                      THEN NoValue ELSE QueryLocals
    /\ pc' = "returned"
    /\ UNCHANGED <<filter, args, input_snapshot, pass1_out_texture,
                   pass2_out_texture, pass3_out_texture, subpasses,
                   snapshot_requests, result>>

CallScaleSigma ==
    /\ pc = "idle"
    /\ \E sigma \in SigmaArgs :
        query' = [op |-> "ScaleSigma", sigma |-> sigma,
                  result |-> ScaleSigma(sigma)]
    /\ pc' = "returned"
    /\ UNCHANGED <<filter, args, input_snapshot, locals, pass1_out_texture,
                   pass2_out_texture, pass3_out_texture, subpasses,
                   snapshot_requests, result>>

Next ==
    \/ RenderFilterEntry
    \/ RenderFilterDownsample
    \/ RenderFilterBlurY
    \/ RenderFilterBlurX
    \/ RenderFilterComposite
    \/ Return
    \/ CallGetFilterSourceCoverage
    \/ CallGetFilterCoverage
    \/ CallScaleSigma

Spec == Init /\ [][Next]_vars

----------------------------------------------------------------------------
(* Vocabulary of the properties *)

\* a fixed-point scalar below the near-zero threshold 10^-3
NearZero(v) == v * 1000 < Unit

SigmasNearZero ==
    NearZero(ScaleSigma(sigma_x_)) /\ NearZero(ScaleSigma(sigma_y_))

SigmasNonNegative == sigma_x_ >= 0 /\ sigma_y_ >= 0

\* a RenderFilter call is running or has returned
InRender == pc \in {"downsample", "blurY", "blurX", "composite", "done"}

SnapshotAvailable ==
    InRender /\ args.inputs # <<>> /\ args.inputs[1].snapshot.has_value

\* the call is past the fast path's return
GeneralPath == SnapshotAvailable /\ ~SigmasNearZero

Returned == pc = "done"

\* sigma of the blur pass of an axis, scaled sigma times effective scalar,
\* is below the threshold
PassSigmaNearZeroY ==
    locals.scaled_sigma.y * locals.subpass_size.height * 1000
        < Unit * locals.padded_size.y

PassSigmaNearZeroX ==
    locals.scaled_sigma.x * locals.subpass_size.width * 1000
        < Unit * locals.padded_size.x

Contains(outer, inner) ==
    outer.l <= inner.l /\ outer.t <= inner.t /\ outer.r >= inner.r /\ outer.b >= inner.b

IsBlur(request) == request.command.label = "Gaussian blur"

AddressModeOf(tile_mode) ==
    CASE tile_mode = "kClamp" -> "kClampToEdge"
      [] tile_mode = "kRepeat" -> "kRepeat"
      [] tile_mode = "kMirror" -> "kMirror"
      [] tile_mode = "kDecal" -> "kDecal"

----------------------------------------------------------------------------
(* C1: when the upstream snapshot is available and both scaled sigmas are   *)
(* below the near-zero threshold, RenderFilter returns a result carrying    *)
(* the input snapshot's image, transform, sampler descriptor and opacity,   *)
(* and requests no offscreen subpass.                                       *)
C1_FastPathReturnsInput ==
    (Returned /\ SnapshotAvailable /\ SigmasNearZero) =>
        /\ result.has_value
        /\ result.value.texture = args.inputs[1].snapshot.value.texture
        /\ result.value.transform = args.inputs[1].snapshot.value.transform
        /\ result.value.sampler_descriptor =
               args.inputs[1].snapshot.value.sampler_descriptor
        /\ result.value.opacity = args.inputs[1].snapshot.value.opacity
        /\ subpasses = <<>>

C1_Witness ==
    /\ Returned /\ SnapshotAvailable /\ SigmasNearZero
    /\ sigma_x_ = 0 /\ sigma_y_ = 0
    /\ result.has_value
    /\ result.value.texture.id = 0
    /\ result.value.opacity = Unit \div 2

(* C2: RenderFilter returns an absent result exactly when the input list is *)
(* empty or the upstream gives no snapshot; then no offscreen subpass is    *)
(* requested, and with an empty input list no snapshot is requested either. *)
(* In every other case the result is present.                               *)
C2_AbsentExactlyWithoutInput ==
    Returned =>
        /\ ~result.has_value <=>
               (args.inputs = <<>> \/ ~args.inputs[1].snapshot.has_value)
        /\ ~result.has_value => subpasses = <<>>
        /\ args.inputs = <<>> => snapshot_requests = <<>>
        /\ args.inputs # <<>> => Len(snapshot_requests) = 1

C2_Witness ==
    /\ Returned
    /\ args.inputs # <<>>
    /\ ~args.inputs[1].snapshot.has_value
    /\ ~result.has_value
    /\ Len(snapshot_requests) = 1
    /\ sigma_x_ = 600

(* C3: on the general path, for sigmas >= 0 and a texture of positive size, *)
(* the subpass size has width >= 1 and height >= 1.                         *)
C3_SubpassSizePositive ==
    (GeneralPath /\ SigmasNonNegative) =>
        /\ locals.subpass_size.width >= 1
        /\ locals.subpass_size.height >= 1


C3_Witness ==
    /\ GeneralPath
    /\ sigma_x_ = 0 /\ sigma_y_ = 600
    /\ input_snapshot.value.texture.size = [width |-> 1, height |-> 1]
    /\ locals.padded_size = [x |-> 1, y |-> 261]
    /\ locals.subpass_size = [width |-> 0, height |-> 14]

OutputCoordinate(q) ==
    [x |-> RMul(FromInt(q.x + locals.padding.x), locals.effective_scalar.x),
     y |-> RMul(FromInt(q.y + locals.padding.y), locals.effective_scalar.y)]

PixelCoordinates ==
    {[x |-> 0, y |-> 0], [x |-> 1, y |-> 0], [x |-> 0, y |-> 1],
     [x |-> input_snapshot.value.texture.size.width,
      y |-> input_snapshot.value.texture.size.height]}

MapsBack(q) ==
    RatMatVec(result.value.transform, OutputCoordinate(q)) =
        RatMatVec(input_snapshot.value.transform,
                  [x |-> FromInt(q.x), y |-> FromInt(q.y)])

(* C4: on the general path the output transform maps the output-image       *)
(* coordinate (q + padding) * effectiveScalar of every input pixel          *)
(* coordinate q to the point the input transform maps q to.                 *)
C4_OutputTransformUndoesPaddingAndScale ==
    (Returned /\ GeneralPath) => \A q \in PixelCoordinates : MapsBack(q)


C4_Witness ==
    /\ Returned /\ GeneralPath
    /\ locals.subpass_size.width = 0
    /\ locals.effective_scalar.x = FromInt(0)
    /\ ~MapsBack([x |-> 0, y |-> 0])

DownsampleDone ==
    /\ Len(subpasses) >= 1
    /\ subpasses[1].command.label = "Gaussian blur downsample"
    /\ subpasses[1].command.texture = input_snapshot.value.texture.id
    /\ pass1_out_texture.id = subpasses[1].out
    /\ pass1_out_texture.id # input_snapshot.value.texture.id

IsBlurY(request) ==
    IsBlur(request) /\ request.command.blur_info.blur_uv_offset.x = FromInt(0)

IsBlurX(request) ==
    IsBlur(request) /\ request.command.blur_info.blur_uv_offset.y = FromInt(0)

Requests(Kind(_)) == {i \in 1..Len(subpasses) : Kind(subpasses[i])}

BlurYDone ==
    \/ /\ pass2_out_texture = pass1_out_texture
       /\ Requests(IsBlurY) = {}
    \/ /\ Requests(IsBlurY) = {2}
       /\ subpasses[2].command.texture = pass1_out_texture.id
       /\ subpasses[2].command.blur_info.blur_uv_offset.y =
              RDiv(FromInt(1), FromInt(pass1_out_texture.size.height))
       /\ pass2_out_texture.id = subpasses[2].out
       /\ pass2_out_texture.id \notin {input_snapshot.value.texture.id,
                                       pass1_out_texture.id}

BlurXDone ==
    \/ /\ pass3_out_texture = pass2_out_texture
       /\ Requests(IsBlurX) = {}
    \/ /\ Requests(IsBlurX) = {Len(subpasses)}
       /\ subpasses[Len(subpasses)].command.texture = pass2_out_texture.id
       /\ subpasses[Len(subpasses)].command.blur_info.blur_uv_offset.x =
              RDiv(FromInt(1), FromInt(pass1_out_texture.size.width))
       /\ pass3_out_texture.id = subpasses[Len(subpasses)].out
       /\ pass3_out_texture.id \notin {input_snapshot.value.texture.id,
                                       pass1_out_texture.id,
                                       pass2_out_texture.id}

(* C5: on the general path the stages run once each in the order snapshot   *)
(* acquisition, downsample, Y blur, X blur, composite: the downsample reads *)
(* the input snapshot's image, the Y blur (uv offset (0, 1/height)) reads   *)
(* the downsample's output, the X blur (uv offset (1/width, 0)) reads the Y *)
(* blur's output, and the returned image is the X blur's output.            *)
C5_StagesInOrder ==
    GeneralPath =>
        /\ Len(snapshot_requests) = 1 /\ input_snapshot.has_value
        /\ pc = "downsample" =>
               /\ subpasses = <<>>
               /\ pass1_out_texture = NoValue
        /\ pc = "blurY" =>
               /\ DownsampleDone /\ Len(subpasses) = 1
               /\ pass2_out_texture = NoValue
        /\ pc = "blurX" =>
               /\ DownsampleDone /\ BlurYDone
               /\ Requests(IsBlurX) = {}
               /\ pass3_out_texture = NoValue
        /\ pc = "composite" =>
               /\ DownsampleDone /\ BlurYDone /\ BlurXDone
               /\ ~result.has_value
        /\ pc = "done" =>
               /\ DownsampleDone /\ BlurYDone /\ BlurXDone
               /\ result.has_value
               /\ result.value.texture = pass3_out_texture
        /\ \A i \in 1..Len(subpasses) :
               \/ i = 1 /\ ~IsBlur(subpasses[i])
               \/ i > 1 /\ IsBlurY(subpasses[i]) /\ ~IsBlurX(subpasses[i])
               \/ i > 1 /\ IsBlurX(subpasses[i]) /\ ~IsBlurY(subpasses[i])

C5_Witness ==
    /\ Returned /\ GeneralPath
    /\ Len(subpasses) = 3
    /\ subpasses[2].command.texture = 1
    /\ subpasses[3].command.texture = 2
    /\ result.value.texture.id = 3

ScaleSigmaOf500 == 75 * Unit

InClampRange(v) == 0 <= v /\ v <= 500 * Unit

(* C6 as stated: ScaleSigma clamps its argument to [0,500], so              *)
(* ScaleSigma(0) = 0, ScaleSigma(s) = ScaleSigma(500) for s > 500,          *)
(* ScaleSigma(s) = ScaleSigma(0) for s < 0, and the scaled sigma every      *)
(* entry point uses lies in [0,500] for every constructed sigma.            *)
C6_Original ==
    /\ query.op = "ScaleSigma" =>
           /\ query.sigma = 0 => query.result = 0
           /\ query.sigma > 500 => query.result = ScaleSigmaOf500
           /\ query.sigma < 0 => query.result = 0
    /\ locals # NoValue =>
           /\ InClampRange(locals.scaled_sigma.x)
           /\ InClampRange(locals.scaled_sigma.y)

(* C6 amended: ScaleSigma clamps its argument from above only, at 500:      *)
(* ScaleSigma(0) = 0 and ScaleSigma(s) = ScaleSigma(500) for s > 500, but   *)
(* for s < 0 the result is negative, not ScaleSigma(0); the scaled sigma    *)
(* every entry point uses lies in [0,500] for every constructed sigma >= 0. *)
C6_ClampsFromAboveOnly ==
    /\ query.op = "ScaleSigma" =>
           /\ query.sigma = 0 => query.result = 0
           /\ query.sigma = 500 => query.result = ScaleSigmaOf500
           /\ query.sigma > 500 => query.result = ScaleSigmaOf500
           /\ query.sigma < 0 => query.result < 0
           /\ query.sigma >= 0 => InClampRange(query.result)
    /\ locals # NoValue =>
           /\ sigma_x_ >= 0 => InClampRange(locals.scaled_sigma.x)
           /\ sigma_y_ >= 0 => InClampRange(locals.scaled_sigma.y)
           /\ sigma_x_ < 0 => locals.scaled_sigma.x < 0
           /\ sigma_y_ < 0 => locals.scaled_sigma.y < 0

C6_Witness ==
    /\ query.op = "ScaleSigma"
    /\ query.sigma > 500
    /\ query.result = ScaleSigmaOf500

TransformedPadding ==
    LET m == MatMul(args.entity.transform, args.effect_transform)
        p == locals.padding
    IN  [x |-> Unit * AbsInt(m.a * p.x + m.b * p.y + m.tx),
         y |-> Unit * AbsInt(m.c * p.x + m.d * p.y + m.ty)]

(* C7: GetFilterCoverage returns absent exactly when the input list is      *)
(* empty or the first input's coverage is absent; the coverage limit that   *)
(* RenderFilter passes to the upstream snapshot is absent exactly when the  *)
(* caller's coverage hint is absent, and otherwise is the hint expanded by  *)
(* the absolute value of the transformed padding.                           *)
C7_UnboundedCoveragePropagates ==
    /\ query.op = "GetFilterCoverage" =>
           (~query.result.has_value <=>
               (query.inputs = <<>> \/ ~query.inputs[1].coverage.has_value))
    /\ query.op = "GetFilterSourceCoverage" => query.result.has_value
    /\ snapshot_requests # <<>> =>
           LET limit == snapshot_requests[1].coverage_limit
               hint == args.coverage_hint
           IN  /\ ~limit.has_value <=> ~hint.has_value
               /\ limit.has_value =>
                      /\ limit.value.l = hint.value.l - TransformedPadding.x
                      /\ limit.value.r = hint.value.r + TransformedPadding.x
                      /\ limit.value.t = hint.value.t - TransformedPadding.y
                      /\ limit.value.b = hint.value.b + TransformedPadding.y
                      /\ Contains(limit.value, hint.value)

C7_Witness ==
    /\ snapshot_requests # <<>>
    /\ snapshot_requests[1].coverage_limit.has_value
    /\ snapshot_requests[1].coverage_limit.value.l < args.coverage_hint.value.l
    /\ args.entity.transform # Identity
    /\ locals.padding.x > 0 /\ locals.padding.y = 0

(* C8: every blur pass that renders selects the decal-fallback shader       *)
(* exactly when tile_mode is Decal and the device lacks native decal        *)
(* support; otherwise it selects the standard blur shader and its sampler's *)
(* width and height address modes are those of the tile mode, whatever the  *)
(* input snapshot's sampler descriptor carried.                             *)
C8_BlurPassTileMode ==
    \A i \in 1..Len(subpasses) :
        IsBlur(subpasses[i]) =>
            IF tile_mode_ = "kDecal" /\ ~args.supports_decal
            THEN subpasses[i].command.pipeline = "GaussianBlurDecalPipeline"
            ELSE /\ subpasses[i].command.pipeline = "GaussianBlurPipeline"
                 /\ subpasses[i].command.sampler.width_address_mode =
                        AddressModeOf(tile_mode_)
                 /\ subpasses[i].command.sampler.height_address_mode =
                        AddressModeOf(tile_mode_)


C8_Witness ==
    /\ tile_mode_ = "kMirror"
    /\ Len(subpasses) = 3
    /\ IsBlur(subpasses[2])
    /\ subpasses[2].command.pipeline = "GaussianBlurPipeline"
    /\ subpasses[2].command.sampler.width_address_mode = "kRepeat"
    /\ input_snapshot.value.sampler_descriptor.width_address_mode = "kRepeat"

PassesRendered(skips) == Cardinality({i \in 1..Len(skips) : ~skips[i]})

(* C9: a blur pass whose sigma is below the near-zero threshold returns its *)
(* input image itself and requests no offscreen target; otherwise it        *)
(* requests exactly one, of its input image's size.  A general-path call    *)
(* requests 1 + k targets, k the number of axes whose pass sigma is at or   *)
(* above the threshold, and every image after the downsample has the        *)
(* subpass size.                                                            *)
C9_BlurPassIdentityBelowThreshold ==
    GeneralPath =>
        /\ pc \in {"blurX", "composite", "done"} =>
               /\ pass1_out_texture.size = subpasses[1].size
               /\ subpasses[1].size = locals.subpass_size
               /\ IF PassSigmaNearZeroY
                  THEN pass2_out_texture = pass1_out_texture
                  ELSE /\ pass2_out_texture.id = subpasses[2].out
                       /\ pass2_out_texture.id # pass1_out_texture.id
                       /\ subpasses[2].size = pass1_out_texture.size
                       /\ pass2_out_texture.size = pass1_out_texture.size
        /\ pc = "blurX" =>
               Len(subpasses) = 1 + PassesRendered(<<PassSigmaNearZeroY>>)
        /\ pc \in {"composite", "done"} =>
               /\ Len(subpasses) =
                      1 + PassesRendered(<<PassSigmaNearZeroY, PassSigmaNearZeroX>>)
               /\ IF PassSigmaNearZeroX
                  THEN pass3_out_texture = pass2_out_texture
                  ELSE /\ pass3_out_texture.id = subpasses[Len(subpasses)].out
                       /\ pass3_out_texture.id # pass2_out_texture.id
                       /\ subpasses[Len(subpasses)].size = pass2_out_texture.size
                       /\ pass3_out_texture.size = pass2_out_texture.size
               /\ pass3_out_texture.size = locals.subpass_size

C9_Witness ==
    /\ Returned /\ GeneralPath
    /\ PassSigmaNearZeroY /\ ~PassSigmaNearZeroX
    /\ Len(subpasses) = 2
    /\ pass2_out_texture = pass1_out_texture
    /\ pass3_out_texture.id = 2

MovedOutwardBy(outer, inner, radius) ==
    /\ inner.l - outer.l = radius.x /\ outer.r - inner.r = radius.x
    /\ inner.t - outer.t = radius.y /\ outer.b - inner.b = radius.y

(* C10: for sigmas >= 0 and every effect and upstream transform, the        *)
(* rectangle GetFilterSourceCoverage returns contains outputLimit and the   *)
(* rectangle GetFilterCoverage returns contains the upstream coverage; with *)
(* identity transforms each side moves outward by exactly the blur radius.  *)
C10_CoverageOnlyGrows ==
    SigmasNonNegative =>
        /\ query.op = "GetFilterSourceCoverage" =>
               /\ Contains(query.result.value, query.output_limit)
               /\ query.effect_transform = Identity =>
                      MovedOutwardBy(query.result.value, query.output_limit,
                                     locals.blur_radius)
        /\ (query.op = "GetFilterCoverage" /\ query.result.has_value) =>
               /\ Contains(query.result.value, query.inputs[1].coverage.value)
               /\ (query.effect_transform = Identity
                     /\ query.inputs[1].transform = Identity) =>
                      MovedOutwardBy(query.result.value,
                                     query.inputs[1].coverage.value,
                                     locals.blur_radius)

C10_Witness ==
    /\ SigmasNonNegative
    /\ query.op = "GetFilterSourceCoverage"
    /\ query.effect_transform.a < 0
    /\ locals.blur_radius.x > 0
    /\ query.result.value.l > query.output_limit.l
    /\ query.result.value.r < query.output_limit.r
====
